---------------------------- MODULE Spec2Model ----------------------------
(***************************************************************************)
(* Model of the flattening core of raml-fleece (src/main.js):              *)
(* flattenHierarchy, traitsToObject, flattenResources, flattenMethods,     *)
(* makeExamplesOf, makeExampleFromType and tryPrettyJson.                   *)
(*                                                                         *)
(* JavaScript values are tagged records: Str(s) with s a sequence of       *)
(* characters, Num(n), Undefined, Null, Ref(a) (a reference to an object   *)
(* of the input that lives in `heap`), Obj(f) (an object created by the    *)
(* call).  A JavaScript object whose field names are fixed by the code is  *)
(* a TLA+ record; an absent field is a field outside its DOMAIN.  A        *)
(* mapping whose iteration order matters is Map(entries), a sequence of    *)
(* entries [key, value] with distinct keys; an array is Arr(elements).     *)
(***************************************************************************)
EXTENDS Integers, Sequences, FiniteSets, TLC

VARIABLES
    pc,        \* "start", "running", "done" (returned) or "failed" (threw)
    root,      \* the argument of flattenHierarchy
    methods,   \* the argument of a direct call of flattenMethods
    heap,      \* the objects of the input that a literal example refers to
    stack,     \* the activation records of flattenResources.recur
    xs,        \* the local `xs` of flattenResources
    traits,    \* the local `traits` of flattenHierarchy
    result,    \* what the call returned to its caller; NoResult before that
    error      \* the error the call threw to its caller; NoResult if none

vars == <<pc, root, methods, heap, stack, xs, traits, result, error>>

---------------------------------------------------------------------------
(* Bounds of the model *)

MaxNodes == 4
MaxKids == 2
MaxExampleLen == 3
MaxParams == 2
MaxVariants == 2

---------------------------------------------------------------------------
(* JavaScript values *)

Str(s) == [str |-> s]
Num(n) == [num |-> n]
Ref(a) == [ref |-> a]
Obj(f) == [obj |-> f]
Atom(a) == [atom |-> a]      \* a string the code only compares or copies
Map(entries) == [map |-> entries]
Arr(elems) == [array |-> elems]
Undefined == [undefined |-> TRUE]
Null == [null |-> TRUE]
Thrown(msg) == [threw |-> msg]
NoResult == [noresult |-> TRUE]

IsStr(v) == DOMAIN v = {"str"}
IsRef(v) == DOMAIN v = {"ref"}
IsObj(v) == DOMAIN v = {"obj"}
IsMap(v) == DOMAIN v = {"map"}
IsArr(v) == DOMAIN v = {"array"}
IsThrown(v) == DOMAIN v = {"threw"}
IsNullish(v) == v = Undefined \/ v = Null

EmptyObject == [k \in {} |-> Undefined]

Has(o, k) == k \in DOMAIN o
Get(o, k) == IF k \in DOMAIN o THEN o[k] ELSE Undefined
Put(o, k, v) == [j \in DOMAIN o \cup {k} |-> IF j = k THEN v ELSE o[j]]
Delete(o, k) == [j \in DOMAIN o \ {k} |-> o[j]]

\* _.pluck(collection, key): the property of each element, undefined for a
\* null or undefined element or an absent property
pluck(seq, k) ==
    [i \in 1..Len(seq) |-> IF IsNullish(seq[i]) THEN Undefined ELSE Get(seq[i], k)]

\* the entries of a mapping as lodash iterates them; null and undefined
\* collections are iterated as empty ones
Entries(m) == IF IsMap(m) THEN m.map ELSE <<>>

\* the elements of an array as lodash iterates them
Elems(a) == IF IsArr(a) THEN a.array ELSE <<>>

\* _.values(mapping), in iteration order
values(m) == [i \in 1..Len(Entries(m)) |-> Entries(m)[i].value]

RECURSIVE JoinFrom(_, _)
JoinFrom(seq, i) ==
    IF i > Len(seq) THEN <<>>
    ELSE (IF IsStr(seq[i]) THEN seq[i].str ELSE <<>>) \o JoinFrom(seq, i + 1)

\* Array.prototype.join(''): undefined and null elements count as ''
join(seq) == Str(JoinFrom(seq, 1))

RECURSIVE SeqsUpTo(_, _)
SeqsUpTo(S, n) ==
    IF n = 0 THEN {<<>>}
    ELSE LET shorter == SeqsUpTo(S, n - 1)
         IN  shorter \cup {Append(s, c) : s \in shorter, c \in S}

---------------------------------------------------------------------------
(* tryPrettyJson: JSON.parse and JSON.stringify(x, null, 2) on the JSON    *)
(* texts built of the digit 1, brackets, commas and blanks                 *)

JSON_INDENT_SIZE == 2

JsonChars == {"1", "[", "]", ",", " ", "x"}

Failed == [ok |-> FALSE]
Parsed(v, p) == [ok |-> TRUE, val |-> v, pos |-> p]

RECURSIVE SkipWs(_, _)
SkipWs(s, p) == IF p <= Len(s) /\ s[p] = " " THEN SkipWs(s, p + 1) ELSE p

RECURSIVE Digits(_, _)
Digits(s, p) == IF p <= Len(s) /\ s[p] = "1" THEN Digits(s, p + 1) ELSE p

RECURSIVE ParseValue(_, _), ParseElements(_, _, _), AfterElement(_, _, _)
\* a JSON value starting at position p (after white space)
ParseValue(s, p) ==
    IF p > Len(s) THEN Failed
    ELSE IF s[p] = "1" THEN Parsed([num |-> SubSeq(s, p, Digits(s, p) - 1)], Digits(s, p))
    ELSE IF s[p] = "[" THEN
        (IF SkipWs(s, p + 1) <= Len(s) /\ s[SkipWs(s, p + 1)] = "]"
         THEN Parsed([arr |-> <<>>], SkipWs(s, p + 1) + 1)
         ELSE ParseElements(s, SkipWs(s, p + 1), <<>>))
    ELSE Failed

\* the elements of an array from position p on, up to the closing bracket
ParseElements(s, p, acc) == AfterElement(s, ParseValue(s, p), acc)

\* what follows the element v of an array: a comma and more, or the bracket
AfterElement(s, v, acc) ==
    IF ~v.ok \/ SkipWs(s, v.pos) > Len(s) THEN Failed
    ELSE IF s[SkipWs(s, v.pos)] = "]"
        THEN Parsed([arr |-> Append(acc, v.val)], SkipWs(s, v.pos) + 1)
    ELSE IF s[SkipWs(s, v.pos)] = ","
        THEN ParseElements(s, SkipWs(s, SkipWs(s, v.pos) + 1), Append(acc, v.val))
    ELSE Failed

WholeText(s, v) == IF v.ok /\ SkipWs(s, v.pos) = Len(s) + 1 THEN v ELSE Failed

\* JSON.parse(text): one value, white space around it, nothing else
JSONparse(s) == WholeText(s, ParseValue(s, SkipWs(s, 1)))

Blanks(n) == [i \in 1..n |-> " "]

RECURSIVE Stringify(_, _), StringifyItems(_, _, _)
\* JSON.stringify(v, null, JSON_INDENT_SIZE) at the given current indent
Stringify(v, indent) ==
    IF "num" \in DOMAIN v THEN v.num
    ELSE IF v.arr = <<>> THEN <<"[", "]">>
    ELSE <<"[">> \o StringifyItems(v.arr, 1, indent + JSON_INDENT_SIZE)
         \o <<"\n">> \o Blanks(indent) \o <<"]">>

StringifyItems(items, i, indent) ==
    IF i > Len(items) THEN <<>>
    ELSE (IF i > 1 THEN <<",">> ELSE <<>>) \o <<"\n">> \o Blanks(indent)
         \o Stringify(items[i], indent) \o StringifyItems(items, i + 1, indent)

prettyJson(v) == Stringify(v, 0)

\* mutant: an example that is no JSON text is rejected
PrettyOrNothing(x, parsed) ==
    IF parsed.ok THEN Str(Stringify(parsed.val, 0)) ELSE Undefined

PrettyOrOriginal(x, parsed) ==
    IF parsed.ok THEN Str(prettyJson(parsed.val)) ELSE x

\* try { return prettyJson(JSON.parse(x)) } catch (e) { return x }.  An
\* undefined x is converted to the text "undefined", which is no JSON text.
tryPrettyJson(x) ==
    IF IsStr(x) THEN PrettyOrOriginal(x, JSONparse(x.str)) ELSE x

---------------------------------------------------------------------------
(* makeExampleFromType, _.set and makeExamplesOf                           *)

ExamplePrefix == <<"E", "X", "A", "M", "P", "L", "E", ":", " ">>

PlaceholderNumber == 1234567890

\* mutant: a type that is not supported gets no example instead of an error
makeExampleFromTypeLenient(t, name) ==
    IF t = Atom("string") THEN Str(ExamplePrefix \o name.str)
    ELSE IF t = Atom("number") THEN Num(PlaceholderNumber)
    ELSE Undefined

makeExampleFromType(t, name) ==
    IF t = Atom("string") THEN Str(ExamplePrefix \o name.str)
    ELSE IF t = Atom("number") THEN Num(PlaceholderNumber)
    ELSE Thrown(t)

RECURSIVE SplitDots(_, _, _)
SplitDots(s, i, cur) ==
    IF i > Len(s) THEN (IF cur = <<>> THEN <<>> ELSE <<cur>>)
    ELSE IF s[i] = "." THEN
        (IF cur = <<>> THEN <<>> ELSE <<cur>>) \o SplitDots(s, i + 1, <<>>)
    ELSE SplitDots(s, i + 1, Append(cur, s[i]))

\* lodash toPath: the runs of characters between the dots of a property path
toPath(s) == SplitDots(s, 1, <<>>)

HasDot(s) == \E i \in 1..Len(s) : s[i] = "."

\* mutant: the name is never split at its dots
setPathFlat(fields, name) == <<name>>

\* the path _.set follows: the whole name when it is a plain name or already a
\* key of the object, its dot-separated segments otherwise
setPath(fields, name) ==
    IF ~HasDot(name) \/ Has(fields, name) THEN <<name>> ELSE toPath(name)

Fields(target, hp) == IF IsRef(target) THEN hp[target.ref] ELSE target.obj

\* the object `target` with its fields replaced: a write through a reference
\* changes the heap, a write to an object of the call changes that object
Store(target, fields, hp) ==
    IF IsRef(target)
    THEN [val |-> target, heap |-> [hp EXCEPT ![target.ref] = fields]]
    ELSE [val |-> Obj(fields), heap |-> hp]

\* nested[key] = {} when nested[key] == null
Made(fields, key) ==
    IF IsNullish(Get(fields, key)) THEN Put(fields, key, Obj(EmptyObject)) ELSE fields

WriteBack(target, key, sub) ==
    Store(target, Put(Fields(target, sub.heap), key, sub.val), sub.heap)

RECURSIVE SetAt(_, _, _, _, _), Descend(_, _, _, _)
\* the loop of lodash 3's _.set from path[i] on, `target` being `nested`: a
\* value that is no object is left as it is, and so is everything below it.
\* Returns the value `target` holds afterwards and the heap afterwards.
SetAt(target, hp, path, i, value) ==
    IF i > Len(path) \/ ~(IsObj(target) \/ IsRef(target))
    THEN [val |-> target, heap |-> hp]
    ELSE IF i = Len(path)
    THEN Store(target, Put(Fields(target, hp), path[i], value), hp)
    ELSE Descend(path, i, value,
                 Store(target, Made(Fields(target, hp), path[i]), hp))

\* nested = nested[key], `made` being the object and the heap so far
Descend(path, i, value, made) ==
    WriteBack(made.val, path[i],
              SetAt(Fields(made.val, made.heap)[path[i]], made.heap, path, i + 1, value))

Unwrap(r) == [obj |-> r.val.obj, heap |-> r.heap]

\* _.set(o, name, value) for the fresh object with fields o
set(o, hp, name, value) ==
    Unwrap(SetAt(Obj(o), hp, setPath(o, name.str), 1, value))

\* 'example' in v ? v.example : makeExampleFromType(v.type, v.displayName)
exampleOf(v) ==
    IF Has(v, "example") THEN v.example
    ELSE makeExampleFromType(Get(v, "type"), Get(v, "displayName"))

RECURSIVE ReduceParams(_, _, _, _), ReduceStep(_, _, _, _, _), ReduceRest(_, _, _)
\* _.reduce(params, function(o, v) {...}, {}) from the i-th parameter on
ReduceParams(params, i, o, hp) ==
    IF i > Len(params) THEN [threw |-> FALSE, obj |-> o, heap |-> hp]
    ELSE ReduceStep(params, i, o, hp, exampleOf(params[i]))

ReduceStep(params, i, o, hp, example) ==
    IF IsThrown(example)
    THEN [threw |-> TRUE, error |-> example, heap |-> hp]
    ELSE ReduceRest(params, i, set(o, hp, Get(params[i], "displayName"), example))

ReduceRest(params, i, r) == ReduceParams(params, i + 1, r.obj, r.heap)

Truthy(v) == ~IsNullish(v)

\* _.map(examples, tryPrettyJson)
bodyExamples(examples) ==
    Arr([i \in 1..Len(examples) |-> tryPrettyJson(examples[i])])

\* mutant: the composite object is returned even when it is empty
paramsExampleAlways(r) ==
    IF r.threw THEN r
    ELSE [threw |-> FALSE, val |-> Arr(<<Obj(r.obj)>>), heap |-> r.heap]

\* lines 109-111, r being the outcome of the reduce
paramsExample(r) ==
    IF r.threw THEN r
    ELSE [threw |-> FALSE,
          val |-> IF Cardinality(DOMAIN r.obj) > 0 THEN Arr(<<Obj(r.obj)>>)
                  ELSE Undefined,
          heap |-> r.heap]

\* makeExamplesOf(obj) with the heap it runs on; returns the value returned or
\* the error thrown, and the heap afterwards
makeExamplesOf(obj, hp) ==
    IF Truthy(Get(obj, "body"))
    THEN [threw |-> FALSE,
          val |-> bodyExamples(pluck(values(obj.body), "example")),
          heap |-> hp]
    ELSE paramsExample(ReduceParams(Elems(Get(obj, "params")), 1, EmptyObject, hp))

---------------------------------------------------------------------------
(* flattenMethods                                                          *)

RECURSIVE EachRespTypeFirstWins(_, _, _, _, _)
\* mutant: the first content type visited is kept instead of the last
EachRespTypeFirstWins(schemas, i, obj, code, methodName) ==
    IF i > Len(schemas) THEN obj
    ELSE EachRespTypeFirstWins(schemas, i + 1,
             IF Has(obj, "code") THEN obj
             ELSE [example |-> Get(schemas[i].value, "example"), code |-> code,
                   method |-> methodName],
             code, methodName)

RECURSIVE EachRespType(_, _, _, _, _)
\* _.forEach(objForBody, function(objForRespType, respType) {...})
EachRespType(schemas, i, obj, code, methodName) ==
    IF i > Len(schemas) THEN obj
    ELSE EachRespType(schemas, i + 1,
             Put(Put(Put(obj, "example", Get(schemas[i].value, "example")),
                     "code", code),
                 "method", methodName),
             code, methodName)

RECURSIVE EachBody(_, _, _, _, _)
\* _.forEach(objForCode, function(objForBody, body) {...})
EachBody(bodies, i, obj, code, methodName) ==
    IF i > Len(bodies) THEN obj
    ELSE EachBody(bodies, i + 1,
             EachRespType(Entries(bodies[i].value), 1, obj, code, methodName),
             code, methodName)

\* the callback of _.map(objForMethod.responses, ...): the summary of one code
responseSummary(objForCode, code, methodName) ==
    EachBody(Entries(objForCode), 1, EmptyObject, code, methodName)

flattenResponses(responses, methodName) ==
    Arr([i \in 1..Len(Entries(responses)) |->
            responseSummary(Entries(responses)[i].value, Entries(responses)[i].key,
                            methodName)])

\* lines 120-132, ex being the outcome of makeExamplesOf(obj)
withExamples(objForMethod, ex) ==
    IF ex.threw THEN ex
    ELSE [threw |-> FALSE,
          val |-> Put(Put(objForMethod,            \* obj = _.extend({}, objForMethod)
                          "requestExamples", ex.val),
                      "responses",
                      flattenResponses(Get(objForMethod, "responses"),
                                       Get(objForMethod, "method"))),
          heap |-> ex.heap]

\* the callback of _.map(methods, ...): one flattened method, or the error
flattenMethod(objForMethod, hp) ==
    withExamples(objForMethod, makeExamplesOf(objForMethod, hp))

RECURSIVE MapMethods(_, _, _, _), MapRest(_, _, _, _)
MapMethods(ms, i, acc, hp) ==
    IF i > Len(ms) THEN [threw |-> FALSE, val |-> Arr(acc), heap |-> hp]
    ELSE MapRest(ms, i, acc, flattenMethod(ms[i], hp))

MapRest(ms, i, acc, r) ==
    IF r.threw THEN r ELSE MapMethods(ms, i + 1, Append(acc, r.val), r.heap)

\* flattenMethods(methods); an undefined `methods` maps to the empty list
flattenMethods(ms, hp) == MapMethods(Elems(ms), 1, <<>>, hp)

---------------------------------------------------------------------------
(* traitsToObject                                                          *)

\* acc[key] = value on a mapping: an existing key keeps its place
Assign(entries, key, value) ==
    IF \E i \in 1..Len(entries) : entries[i].key = key
    THEN [i \in 1..Len(entries) |->
            IF entries[i].key = key THEN [key |-> key, value |-> value]
            ELSE entries[i]]
    ELSE Append(entries, [key |-> key, value |-> value])

RECURSIVE ReduceTraits(_, _, _)
ReduceTraits(ts, i, acc) ==
    IF i > Len(ts) THEN acc
    ELSE LET first == Entries(ts[i])[1]          \* Object.keys(obj)[0]
         IN  ReduceTraits(ts, i + 1, Assign(acc, first.key, first.value))

traitsToObject(ts) == Map(ReduceTraits(Elems(ts), 1, <<>>))

---------------------------------------------------------------------------
(* The inputs                                                              *)

Uris == {Str(<<"/", "a">>), Str(<<"/", "b">>)}

Names == {Str(<<"a">>), Str(<<"b">>), Str(<<"a", ".", "b">>)}

Types == {Atom("string"), Atom("number"), Atom("boolean")}

Literal == Str(<<"v">>)

\* the object a literal example refers to, as the parser made it
ExampleObject == (<<"x">> :> Literal)

\* the parameter descriptors; `a` is the address of the descriptor's literal
\* example when that example is an object
Params(a) ==
    {[displayName |-> n, type |-> t] : n \in Names, t \in Types}
    \cup {[displayName |-> n, type |-> t, example |-> e] :
            n \in Names, t \in Types, e \in {Literal, Ref(a)}}

RECURSIVE ParamLists(_, _)
\* the parameter lists of at most n descriptors, of the method at address m
ParamLists(m, n) ==
    IF n = 0 THEN {<<>>}
    ELSE LET shorter == ParamLists(m, n - 1)
         IN  shorter \cup
             {Append(ps, p) : ps \in {q \in shorter : Len(q) = n - 1},
                              p \in Params(Append(m, n))}

ContentTypes == <<Atom("application/json"), Atom("text/xml")>>

Entry(k, v) == [key |-> k, value |-> v]

\* the mappings with the first keys of `keys`, in that order, and values in V
RECURSIVE MapsOver(_, _, _)
MapsOver(keys, n, V) ==
    IF n = 0 THEN {<<>>}
    ELSE {Append(m, Entry(keys[n], v)) : m \in MapsOver(keys, n - 1, V), v \in V}

MapsUpTo(keys, n, V) == UNION {MapsOver(keys, k, V) : k \in 0..n}

AllExamples == {Str(e) : e \in SeqsUpTo(JsonChars, MaxExampleLen)}

SampleSchemas ==
    {Null, [type |-> Atom("object")],
     [example |-> Str(<<"x">>)], [example |-> Str(<<"[", "1", "]">>)]}

Post == Atom("post")

\* methods that declare a body
BodyMethods ==
    {[method |-> Post, body |-> Map(<<Entry(ContentTypes[1], [example |-> e])>>)] :
        e \in AllExamples}
    \cup {[method |-> Post, body |-> Map(m)] :
            m \in MapsUpTo(ContentTypes, Len(ContentTypes), SampleSchemas)}
    \cup {[method |-> Post, body |-> Map(<<>>),
           params |-> Arr(<<[displayName |-> Str(<<"a">>), type |-> t]>>)] :
            t \in Types}

\* methods without body, at address m
ParamMethods(m) ==
    {[method |-> Post, params |-> Arr(ps)] : ps \in ParamLists(m, MaxParams)}
    \cup {[method |-> Post], [method |-> Post, body |-> Null]}

RespSchemas ==
    {[example |-> Str(<<"1">>)], [example |-> Str(<<"x">>)],
     [description |-> Atom("no example")]}

VariantKeys == [i \in 1..MaxVariants |-> [variant |-> i]]

ObjForBody == {Null} \cup {Map(m) : m \in MapsUpTo(ContentTypes, Len(ContentTypes), RespSchemas)}

ObjForCode == {Null} \cup {Map(m) : m \in MapsUpTo(VariantKeys, MaxVariants, ObjForBody)}

Codes == <<Atom("200"), Atom("404")>>

SampleObjForCode ==
    {Null, Map(<<>>),
     Map(<<Entry(VariantKeys[1], Map(<<Entry(ContentTypes[1], [example |-> Str(<<"1">>)])>>))>>),
     Map(<<Entry(VariantKeys[1], Map(<<Entry(ContentTypes[1], [example |-> Str(<<"x">>)]),
                                      Entry(ContentTypes[2], [example |-> Str(<<"1">>)])>>))>>)}

Get_ == Atom("get")

\* methods with responses
ResponseMethods ==
    {[method |-> Get_, responses |-> Map(<<Entry(c, o)>>)] :
        c \in {Codes[1], Codes[2]}, o \in ObjForCode}
    \cup {[method |-> Get_, responses |-> Map(<<Entry(Codes[1], o1), Entry(Codes[2], o2)>>)] :
            o1 \in SampleObjForCode, o2 \in SampleObjForCode}
    \cup {[method |-> Get_, responses |-> Map(<<>>)]}

\* the method lists a direct call of flattenMethods is given
MethodLists ==
    {Arr(<<m>>) : m \in BodyMethods \cup ParamMethods(<<<<>>, 1>>) \cup ResponseMethods}
    \cup {Arr(<<>>), Undefined}
    \cup {Arr(<<m1, m2>>) :
            m1 \in {[method |-> Get_, responses |-> Map(<<Entry(Codes[1], o)>>)] :
                        o \in SampleObjForCode},
            m2 \in {[method |-> Post, params |-> Arr(<<p>>)] : p \in Params(<<<<>>, 2, 1>>)}}

ParamsOf(m) == Elems(Get(m, "params"))

\* the addresses of the literal examples of a method list that are objects
RefsOfMethods(ms) ==
    UNION {{ParamsOf(m)[j].example.ref :
                j \in {k \in 1..Len(ParamsOf(m)) :
                        /\ Has(ParamsOf(m)[k], "example")
                        /\ IsRef(ParamsOf(m)[k].example)}} :
           m \in {Elems(ms)[i] : i \in 1..Len(Elems(ms))}}

OkGet ==
    [method |-> Get_,
     responses |-> Map(<<Entry(Codes[1],
        Map(<<Entry(VariantKeys[1],
            Map(<<Entry(ContentTypes[1], [example |-> Str(<<"1">>)])>>))>>))>>)]

OkPost ==
    [method |-> Post,
     params |-> Arr(<<[displayName |-> Str(<<"a", ".", "b">>), type |-> Atom("string")],
                      [displayName |-> Str(<<"b">>), type |-> Atom("number")]>>)]

\* a parameter whose literal example is an object, then one below its path
NestedPost(m) ==
    [method |-> Post,
     params |-> Arr(<<[displayName |-> Str(<<"a">>), type |-> Atom("string"),
                       example |-> Ref(Append(m, 1))],
                      [displayName |-> Str(<<"a", ".", "b">>), type |-> Atom("string")]>>)]

BadPost ==
    [method |-> Post,
     params |-> Arr(<<[displayName |-> Str(<<"a">>), type |-> Atom("string")],
                      [displayName |-> Str(<<"b">>), type |-> Atom("boolean")]>>)]

\* the `methods` of a resource node at position pos, when it has any
NodeMethods(pos) ==
    {Arr(<<OkGet, OkPost>>), Arr(<<OkGet, NestedPost(<<pos, 2>>)>>), Arr(<<BadPost>>)}

\* the relativeUri a node at position pos gets where the tree's methods vary
UriAt(pos) ==
    IF pos = <<>> \/ pos[Len(pos)] % 2 = 0 THEN Str(<<"/", "a">>) ELSE Str(<<"/", "b">>)

\* the labels of the node at position pos: every relativeUri and no methods
\* when vary = "uris", every choice of methods when vary = "methods"
Labels(pos, vary) ==
    IF vary = "uris"
    THEN {[description |-> [at |-> pos], relativeUri |-> u] : u \in Uris}
    ELSE {[description |-> [at |-> pos], relativeUri |-> UriAt(pos), methods |-> ms] :
            ms \in NodeMethods(pos)}

RECURSIVE Trees(_, _, _), Forests(_, _, _, _)
\* the resource trees of size n at position pos (the indices of the path from
\* the root).  The size counts the nodes and, where vary = "uris", the null
\* children and the empty child lists, which the other trees do not have.
\* `description` stands for the fields that are passed through.
Trees(n, pos, vary) ==
    IF n = 0 THEN {}
    ELSE (IF n = 1 THEN Labels(pos, vary) ELSE {})
         \cup (IF n = 2 /\ vary = "uris"
               THEN {[description |-> l.description, relativeUri |-> l.relativeUri,
                      resources |-> Arr(<<>>)] : l \in Labels(pos, vary)}
               ELSE {})
         \cup {IF vary = "uris"
               THEN [description |-> l.description, relativeUri |-> l.relativeUri,
                     resources |-> Arr(f)]
               ELSE [description |-> l.description, relativeUri |-> l.relativeUri,
                     methods |-> l.methods, resources |-> Arr(f)] :
                l \in Labels(pos, vary), f \in Forests(n - 1, pos, 1, vary) \ {<<>>}}

\* the child lists of size n whose first child has index i
Forests(n, pos, i, vary) ==
    IF n = 0 THEN {<<>>}
    ELSE IF i > MaxKids THEN {}
    ELSE UNION {{<<c>> \o rest :
                    c \in (IF k = 1 /\ vary = "uris" THEN {Null} ELSE {})
                          \cup Trees(k, Append(pos, i), vary),
                    rest \in Forests(n - k, pos, i + 1, vary)} :
                k \in 1..n}

Trait(name, def) == Map(<<Entry(Atom(name), Atom(def))>>)

TraitLists ==
    {Arr(<<>>),
     Arr(<<Trait("paged", "d1"), Trait("secured", "d2"), Trait("paged", "d3")>>)}

TreesUpTo(n, vary) == UNION {Trees(k, <<>>, vary) : k \in 1..n}

\* the documents: a resource tree whose root carries the title and the traits
\* and may have no relativeUri of its own
Roots ==
    {Put(Put(t, "title", Atom("API")), "traits", ts) :
        t \in TreesUpTo(MaxNodes, "methods"), ts \in {Arr(<<>>)}}
    \cup UNION {{Put(Put(r, "title", Atom("API")), "traits", ts) :
                    r \in {t, Delete(t, "relativeUri")}, ts \in TraitLists} :
                t \in TreesUpTo(MaxNodes, "uris")}

RECURSIVE RefsOfTree(_)
RefsOfTree(res) ==
    IF ~Truthy(res) THEN {}
    ELSE RefsOfMethods(Get(res, "methods"))
         \cup UNION {RefsOfTree(Elems(Get(res, "resources"))[i]) :
                        i \in 1..Len(Elems(Get(res, "resources")))}

InitialHeap(refs) == [a \in refs |-> ExampleObject]

---------------------------------------------------------------------------
(* flattenHierarchy and flattenResources, one step of recur at a time      *)

Frame(parents, res) == [parents |-> parents, res |-> res, next |-> 0]

Top == stack[Len(stack)]
Pop == SubSeq(stack, 1, Len(stack) - 1)
\* mutant: only the first child is visited
ChildrenFirstOnly(res) ==
    IF Len(Elems(Get(res, "resources"))) = 0
    THEN <<>>
    ELSE <<Elems(Get(res, "resources"))[1]>>

\* mutant: the children are visited last to first
ChildrenReversed(res) ==
    [i \in 1..Len(Elems(Get(res, "resources"))) |->
        Elems(Get(res, "resources"))[Len(Elems(Get(res, "resources"))) + 1 - i]]

Children(res) == Elems(Get(res, "resources"))

\* mutant: the node's own relativeUri is counted into its basePath
cleanOfSelfInBase(parents, res, flatMethods) ==
    Put(Put(Put(Delete(res, "resources"), "methods", flatMethods),
            "basePath", join(pluck(Append(parents, res), "relativeUri"))),
        "path", Get(res, "relativeUri"))

\* lines 70-74: the record of a node, given its flattened methods
cleanOf(parents, res, flatMethods) ==
    LET clean == Delete(res, "resources")       \* on the copy _.extend({}, res)
    IN  Put(Put(Put(clean, "methods", flatMethods),
                "basePath", join(pluck(parents, "relativeUri"))),
            "path", Get(res, "relativeUri"))

Init ==
    /\ pc = "start"
    /\ root \in Roots
    /\ methods = Undefined
    /\ heap = InitialHeap(RefsOfTree(root))
    /\ stack = <<>>
    /\ xs = <<>>
    /\ traits = Undefined
    /\ result = NoResult
    /\ error = NoResult

\* flattenHierarchy(root) up to the call recur([], res)
FlattenHierarchyCall ==
    /\ pc = "start"
    /\ pc' = "running"
    /\ traits' = traitsToObject(Get(root, "traits"))
    /\ xs' = <<>>
    /\ stack' = <<Frame(<<>>, root)>>
    /\ UNCHANGED <<root, methods, heap, result, error>>

\* recur(parents, res) with a null or undefined res: return at once
RecurNull ==
    /\ pc = "running" /\ stack # <<>>
    /\ Top.next = 0
    /\ ~Truthy(Top.res)
    /\ stack' = Pop
    /\ UNCHANGED <<pc, root, methods, heap, xs, traits, result, error>>

\* lines 70-76 when line 72 returns: the node's record is pushed
Visited(r) ==
    /\ ~r.threw
    /\ xs' = Append(xs, cleanOf(Top.parents, Top.res, r.val))
    /\ heap' = r.heap

\* recur(parents, res) of a node whose methods flatten
RecurVisit ==
    /\ pc = "running" /\ stack # <<>>
    /\ Top.next = 0
    /\ Truthy(Top.res)
    /\ Visited(flattenMethods(Get(Top.res, "methods"), heap))
    /\ stack' = [stack EXCEPT ![Len(stack)].next = 1]
    /\ UNCHANGED <<pc, root, methods, traits, result, error>>

Threw(r) ==
    /\ r.threw
    /\ error' = r.error
    /\ heap' = r.heap

\* recur(parents, res), line 72 throws: nothing catches the error, so every
\* activation of recur, flattenResources and flattenHierarchy are left
RecurThrow ==
    /\ pc = "running" /\ stack # <<>>
    /\ Top.next = 0
    /\ Truthy(Top.res)
    /\ Threw(flattenMethods(Get(Top.res, "methods"), heap))
    /\ pc' = "failed"
    /\ stack' = <<>>
    /\ UNCHANGED <<root, methods, xs, traits, result>>

\* lines 76-79: the next child is visited, with the node added to its parents
RecurChild ==
    /\ pc = "running" /\ stack # <<>>
    /\ Top.next \in 1..Len(Children(Top.res))
    /\ stack' = Append([stack EXCEPT ![Len(stack)].next = Top.next + 1],
                       Frame(Append(Top.parents, Top.res),
                             Children(Top.res)[Top.next]))
    /\ UNCHANGED <<pc, root, methods, heap, xs, traits, result, error>>

\* the children are done: recur returns
RecurReturn ==
    /\ pc = "running" /\ stack # <<>>
    /\ Top.next > Len(Children(Top.res))
    /\ stack' = Pop
    /\ UNCHANGED <<pc, root, methods, heap, xs, traits, result, error>>

\* flattenResources returns xs and flattenHierarchy returns the model
FlattenHierarchyReturn ==
    /\ pc = "running" /\ stack = <<>>
    /\ pc' = "done"
    /\ result' = [title |-> Get(root, "title"), traits |-> traits,
                  resources |-> Arr(xs)]
    /\ UNCHANGED <<root, methods, heap, stack, xs, traits, error>>

Next ==
    \/ FlattenHierarchyCall
    \/ RecurNull
    \/ RecurVisit
    \/ RecurThrow
    \/ RecurChild
    \/ RecurReturn
    \/ FlattenHierarchyReturn

Spec == Init /\ [][Next]_vars

---------------------------------------------------------------------------
(* flattenMethods called on one method list                                *)

InitMethods ==
    /\ pc = "start"
    /\ root = Undefined
    /\ methods \in MethodLists
    /\ heap = InitialHeap(RefsOfMethods(methods))
    /\ stack = <<>>
    /\ xs = <<>>
    /\ traits = Undefined
    /\ result = NoResult
    /\ error = NoResult

Returned(r) ==
    /\ ~r.threw
    /\ result' = r.val
    /\ heap' = r.heap

\* flattenMethods(methods) returns the flattened methods
FlattenMethodsReturn ==
    /\ pc = "start"
    /\ Returned(flattenMethods(methods, heap))
    /\ pc' = "done"
    /\ UNCHANGED <<root, methods, stack, xs, traits, error>>

\* flattenMethods(methods) throws
FlattenMethodsThrow ==
    /\ pc = "start"
    /\ Threw(flattenMethods(methods, heap))
    /\ pc' = "failed"
    /\ UNCHANGED <<root, methods, stack, xs, traits, result>>

NextMethods ==
    \/ FlattenMethodsReturn
    \/ FlattenMethodsThrow

SpecMethods == InitMethods /\ [][NextMethods]_vars

---------------------------------------------------------------------------
(* What the claims speak of, stated on the input tree itself               *)

DeclaredChildren(res) ==
    IF Has(res, "resources") /\ IsArr(res.resources) THEN res.resources.array ELSE <<>>

RECURSIVE NodeCount(_), NodeCountFrom(_, _)
\* the nodes of a tree: the root and all its descendants, null children apart
NodeCount(res) ==
    IF IsNullish(res) THEN 0 ELSE 1 + NodeCountFrom(DeclaredChildren(res), 1)

NodeCountFrom(kids, i) ==
    IF i > Len(kids) THEN 0 ELSE NodeCount(kids[i]) + NodeCountFrom(kids, i + 1)

RECURSIVE HasNullChild(_)
HasNullChild(res) ==
    /\ ~IsNullish(res)
    /\ \E i \in 1..Len(DeclaredChildren(res)) :
          \/ IsNullish(DeclaredChildren(res)[i])
          \/ HasNullChild(DeclaredChildren(res)[i])

RECURSIVE NodeAt(_, _)
\* the node at position pos below res
NodeAt(res, pos) ==
    IF pos = <<>> THEN res ELSE NodeAt(DeclaredChildren(res)[Head(pos)], Tail(pos))

RECURSIVE PositionsBelow(_, _)
\* the positions of the nodes of the tree res, which is at position pos
PositionsBelow(res, pos) ==
    IF IsNullish(res) THEN {}
    ELSE {pos} \cup UNION {PositionsBelow(DeclaredChildren(res)[i], Append(pos, i)) :
                            i \in 1..Len(DeclaredChildren(res))}

UriText(res) ==
    IF Has(res, "relativeUri") /\ IsStr(res.relativeUri) THEN res.relativeUri.str ELSE <<>>

RECURSIVE UrisAlong(_, _)
\* the relativeUri values of the first n nodes on the way from the root to the
\* node at position pos, concatenated in that order
UrisAlong(pos, n) ==
    IF n = 0 THEN <<>>
    ELSE UrisAlong(pos, n - 1) \o UriText(NodeAt(root, SubSeq(pos, 1, n - 1)))

Records == IF pc = "done" THEN result.resources.array ELSE <<>>

RecordPositions == [i \in 1..Len(Records) |-> Records[i].description.at]

IsPrefix(p, q) == Len(p) <= Len(q) /\ SubSeq(q, 1, Len(p)) = p

\* C1: when flattenHierarchy returns, the number of flattened resource records
\* equals the number of nodes of the input tree (the root and all descendants);
\* null children give no record and are not counted.
C1_RecordCountIsNodeCount ==
    pc = "done" => Len(result.resources.array) = NodeCount(root)

C1_Witness ==
    /\ pc = "done"
    /\ HasNullChild(root)
    /\ Len(result.resources.array) = 3

\* C2: every node of the input tree has a record whose basePath is the
\* concatenation of its ancestors' relativeUri values in root-to-parent order
\* (empty for the root) and whose path is the node's own relativeUri, so that
\* basePath followed by path is the node's absolute URI.
C2_BasePathIsAncestorUris ==
    pc = "done" =>
        \A pos \in PositionsBelow(root, <<>>) :
            \E i \in 1..Len(Records) :
                /\ Records[i].description.at = pos
                /\ Records[i].basePath = Str(UrisAlong(pos, Len(pos)))
                /\ Records[i].path = Get(NodeAt(root, pos), "relativeUri")
                /\ pos = <<>> => Records[i].basePath = Str(<<>>)
                /\ IsStr(Records[i].path) =>
                      Records[i].basePath.str \o Records[i].path.str
                        = UrisAlong(pos, Len(pos) + 1)

C2_Witness ==
    /\ pc = "done"
    /\ \E i \in 1..Len(Records) :
          /\ Len(Records[i].description.at) = 2
          /\ Records[i].basePath = Str(<<"/", "a", "/", "b">>)
          /\ Records[i].path = Str(<<"/", "a">>)

\* C3: the records are in pre-order: a node's record comes before those of its
\* descendants, the records of a subtree are contiguous, and the subtrees of
\* siblings come in the order the siblings are declared.
C3_RecordsInPreOrder ==
    pc = "done" =>
        LET ids == RecordPositions
        IN  /\ \A i, j \in 1..Len(ids) :
                  (IsPrefix(ids[i], ids[j]) /\ ids[i] # ids[j]) => i < j
            /\ \A m, i, j, k \in 1..Len(ids) :
                  (i < k /\ k < j /\ IsPrefix(ids[m], ids[i]) /\ IsPrefix(ids[m], ids[j]))
                    => IsPrefix(ids[m], ids[k])
            /\ \A i, j \in 1..Len(ids) :
                  ( /\ Len(ids[i]) = Len(ids[j]) /\ Len(ids[i]) > 0
                    /\ SubSeq(ids[i], 1, Len(ids[i]) - 1) = SubSeq(ids[j], 1, Len(ids[j]) - 1)
                    /\ ids[i][Len(ids[i])] < ids[j][Len(ids[j])] )
                    => i < j

C3_Witness ==
    /\ pc = "done"
    /\ RecordPositions = << <<>>, <<1>>, <<1, 1>>, <<2>> >>

RECURSIVE UnsupportedIn(_)
\* some method without body of the tree has a parameter without literal
\* example whose type is neither "string" nor "number"
UnsupportedIn(res) ==
    /\ ~IsNullish(res)
    /\ \/ \E m \in {Elems(Get(res, "methods"))[i] : i \in 1..Len(Elems(Get(res, "methods")))} :
             /\ IsNullish(Get(m, "body"))
             /\ \E j \in 1..Len(ParamsOf(m)) :
                   /\ ~Has(ParamsOf(m)[j], "example")
                   /\ Get(ParamsOf(m)[j], "type") \notin {Atom("string"), Atom("number")}
       \/ \E i \in 1..Len(DeclaredChildren(res)) : UnsupportedIn(DeclaredChildren(res)[i])

\* C7: when a method without body anywhere in the tree has a parameter of an
\* unsupported type and no literal example, flattenHierarchy never returns a
\* model: it never gets to its return, nothing (not even the records pushed
\* before the failure) is handed to the caller, and when it ends it has thrown
\* the error that names the unsupported type.
C7_UnsupportedTypeFailsWhole ==
    (pc # "start" /\ UnsupportedIn(root)) =>
        /\ pc # "done"
        /\ result = NoResult
        /\ ~(pc = "running" /\ stack = <<>>)
        /\ pc = "failed" =>
              /\ IsThrown(error)
              /\ error.threw \notin {Atom("string"), Atom("number")}

C7_Witness ==
    /\ pc = "failed"
    /\ UnsupportedIn(root)
    /\ Len(xs) >= 2
    /\ result = NoResult
    /\ error = Thrown(Atom("boolean"))

\* C8: flattenHierarchy never changes its input: the objects of the input that
\* literal examples refer to are after the call what they were before it.
C8_InputNeverMutated ==
    heap = InitialHeap(DOMAIN heap)

---------------------------------------------------------------------------
(* What the claims speak of, stated on the method list given               *)

MethodsIn == Elems(methods)
MethodsOut == IF pc = "done" /\ IsArr(result) THEN result.array ELSE <<>>

DeclaredExample(schema) ==
    IF IsNullish(schema) THEN Undefined ELSE Get(schema, "example")

\* what the claim C4 expects of an example that is a string
ExpectedOfString(e) ==
    IF JSONparse(e.str).ok THEN Str(prettyJson(JSONparse(e.str).val)) ELSE e

BodyEntriesAsExpected(k) ==
    LET re == MethodsOut[k].requestExamples
        es == Entries(MethodsIn[k].body)
    IN  /\ IsArr(re)
        /\ Len(re.array) = Len(es)
        /\ \A i \in 1..Len(es) :
              IF IsStr(DeclaredExample(es[i].value))
              THEN re.array[i] = ExpectedOfString(DeclaredExample(es[i].value))
              ELSE re.array[i] = Undefined

\* C4 (as amended): for a method that declares a body, requestExamples has one
\* entry per declared content type, in order; the entry is the 2-space pretty
\* print of the example when the example is a string that parses as JSON, the
\* example unchanged when it is a string that does not parse, and undefined
\* (no string) when the content type's schema carries no example.
C4_BodyExamplesPerContentType ==
    \A k \in 1..Len(MethodsOut) :
        Truthy(Get(MethodsIn[k], "body")) => BodyEntriesAsExpected(k)

\* C4 (as claimed): ... and every entry is a string, also for a content type
\* whose schema carries no example.
C4_BodyExamplesAreAllStrings ==
    \A k \in 1..Len(MethodsOut) :
        Truthy(Get(MethodsIn[k], "body")) =>
            /\ BodyEntriesAsExpected(k)
            /\ \A i \in 1..Len(MethodsOut[k].requestExamples.array) :
                  IsStr(MethodsOut[k].requestExamples.array[i])

C4_Witness ==
    /\ pc = "done"
    /\ \E k \in 1..Len(MethodsOut) :
          /\ Len(Entries(Get(MethodsIn[k], "body"))) = 2
          /\ MethodsOut[k].requestExamples
               = Arr(<<Str(<<"[", "\n", " ", " ", "1", "\n", "]">>), Str(<<"x">>)>>)

\* the dot-separated segments of a display name
SegmentStarts(s) == {i \in 1..Len(s) : s[i] # "." /\ (i = 1 \/ s[i - 1] = ".")}
SegmentEnd(s, i) ==
    CHOOSE j \in i..Len(s) :
        /\ \A h \in i..j : s[h] # "."
        /\ j = Len(s) \/ s[j + 1] = "."
NthStart(s, n) ==
    CHOOSE i \in SegmentStarts(s) : Cardinality({j \in SegmentStarts(s) : j < i}) = n - 1
Segments(s) ==
    [n \in 1..Cardinality(SegmentStarts(s)) |->
        SubSeq(s, NthStart(s, n), SegmentEnd(s, NthStart(s, n)))]

Missing == [missing |-> TRUE]

RECURSIVE ValueAt(_, _, _)
\* the value found in v by following path from its i-th segment on
ValueAt(v, path, i) ==
    IF i > Len(path) THEN v
    ELSE IF IsObj(v) /\ Has(v.obj, path[i]) THEN ValueAt(v.obj[path[i]], path, i + 1)
    ELSE IF IsRef(v) /\ Has(heap[v.ref], path[i]) THEN ValueAt(heap[v.ref][path[i]], path, i + 1)
    ELSE Missing

\* what the claim C5 expects at the path of the parameter v
ExpectedOfParam(v) ==
    IF Has(v, "example") THEN v.example
    ELSE IF v.type = Atom("string")
         THEN Str(<<"E", "X", "A", "M", "P", "L", "E", ":", " ">> \o v.displayName.str)
    ELSE IF v.type = Atom("number") THEN Num(1234567890)
    ELSE Missing

Comparable(p, q) == IsPrefix(p, q) \/ IsPrefix(q, p)

ParamPath(m, j) == Segments(ParamsOf(m)[j].displayName.str)

ParamIsHeld(k, j) ==
    /\ IsArr(MethodsOut[k].requestExamples)
    /\ ValueAt(MethodsOut[k].requestExamples.array[1], ParamPath(MethodsIn[k], j), 1)
         = ExpectedOfParam(ParamsOf(MethodsIn[k])[j])

NoDottedKey(k) ==
    IsArr(MethodsOut[k].requestExamples) =>
        \A key \in DOMAIN MethodsOut[k].requestExamples.array[1].obj : ~HasDot(key)

\* C5 (as amended): for a method without body, the composite object holds at
\* the path of its displayName the value of every parameter whose path is
\* neither equal to, nor a dotted prefix of, nor an extension of the path of
\* another parameter of the method: the literal example if it has one, else
\* "EXAMPLE: " and the displayName for type "string" and 1234567890 for type
\* "number"; no key of the composite object contains a dot.
C5_ParamsHeldAtTheirPaths ==
    \A k \in 1..Len(MethodsOut) :
        ~Truthy(Get(MethodsIn[k], "body")) =>
            /\ NoDottedKey(k)
            /\ \A j \in 1..Len(ParamsOf(MethodsIn[k])) :
                  (\A h \in 1..Len(ParamsOf(MethodsIn[k])) \ {j} :
                      ~Comparable(ParamPath(MethodsIn[k], j), ParamPath(MethodsIn[k], h)))
                    => ParamIsHeld(k, j)

\* C5 (as claimed): ... holds the value of every parameter.
C5_EveryParamHeldAtItsPath ==
    \A k \in 1..Len(MethodsOut) :
        ~Truthy(Get(MethodsIn[k], "body")) =>
            /\ NoDottedKey(k)
            /\ \A j \in 1..Len(ParamsOf(MethodsIn[k])) : ParamIsHeld(k, j)

C5_Witness ==
    /\ pc = "done"
    /\ \E k \in 1..Len(MethodsOut) :
          /\ ParamsOf(MethodsIn[k])
               = <<[displayName |-> Str(<<"a", ".", "b">>), type |-> Atom("number")],
                   [displayName |-> Str(<<"b">>), type |-> Atom("string"),
                    example |-> Literal]>>
          /\ MethodsOut[k].requestExamples
               = Arr(<<Obj((<<"a">> :> Obj(<<"b">> :> Num(1234567890)))
                           @@ (<<"b">> :> Literal))>>)

\* C6: for a method without body, requestExamples is a one-element sequence
\* holding the composite object when the method has at least one parameter,
\* and undefined otherwise (so for a method with neither body nor params).
C6_OneCompositeOrUndefined ==
    \A k \in 1..Len(MethodsOut) :
        ~Truthy(Get(MethodsIn[k], "body")) =>
            /\ Has(MethodsOut[k], "requestExamples")
            /\ IF Len(ParamsOf(MethodsIn[k])) > 0
               THEN /\ IsArr(MethodsOut[k].requestExamples)
                    /\ Len(MethodsOut[k].requestExamples.array) = 1
                    /\ IsObj(MethodsOut[k].requestExamples.array[1])
               ELSE MethodsOut[k].requestExamples = Undefined

C6_Witness ==
    /\ pc = "done"
    /\ \E k \in 1..Len(MethodsOut) :
          /\ ~Has(MethodsIn[k], "body")
          /\ Len(ParamsOf(MethodsIn[k])) = 2
          /\ IsArr(MethodsOut[k].requestExamples)
          /\ Len(MethodsOut[k].requestExamples.array) = 1

RECURSIVE VisitedFrom(_, _)
\* the content-type schemas below a status code, in the order they are visited
VisitedFrom(variants, i) ==
    IF i > Len(variants) THEN <<>>
    ELSE values(variants[i].value) \o VisitedFrom(variants, i + 1)

VisitedSchemas(objForCode) == VisitedFrom(Entries(objForCode), 1)

ResponsesIn(k) == Entries(Get(MethodsIn[k], "responses"))

\* C9: the flattened responses have one summary per status code, in the order
\* of the mapping; the example of a summary is that of the last content-type
\* schema visited for its code, the earlier ones being dropped.
C9_OneSummaryPerCodeLastWins ==
    \A k \in 1..Len(MethodsOut) :
        /\ IsArr(MethodsOut[k].responses)
        /\ Len(MethodsOut[k].responses.array) = Len(ResponsesIn(k))
        /\ \A i \in 1..Len(ResponsesIn(k)) :
              VisitedSchemas(ResponsesIn(k)[i].value) # <<>> =>
                  /\ MethodsOut[k].responses.array[i].code = ResponsesIn(k)[i].key
                  /\ MethodsOut[k].responses.array[i].example
                       = Get(VisitedSchemas(ResponsesIn(k)[i].value)
                                [Len(VisitedSchemas(ResponsesIn(k)[i].value))], "example")

C9_Witness ==
    /\ pc = "done"
    /\ \E k \in 1..Len(MethodsOut) : \E i \in 1..Len(ResponsesIn(k)) :
          /\ Len(Entries(ResponsesIn(k)[i].value)) = 2
          /\ Len(VisitedSchemas(ResponsesIn(k)[i].value)) = 4
          /\ VisitedSchemas(ResponsesIn(k)[i].value)[1] = [example |-> Str(<<"1">>)]
          /\ VisitedSchemas(ResponsesIn(k)[i].value)[4] = [example |-> Str(<<"x">>)]
          /\ MethodsOut[k].responses.array[i].example = Str(<<"x">>)

\* C10: every summary of the flattened responses has the form {code, method,
\* example}, with the status code it was built from and the verb of its
\* method, whatever is declared under the status code.
C10_EverySummaryHasCodeAndMethod ==
    \A k \in 1..Len(MethodsOut) :
        \A i \in 1..Len(ResponsesIn(k)) :
            /\ DOMAIN MethodsOut[k].responses.array[i] = {"code", "method", "example"}
            /\ MethodsOut[k].responses.array[i].code = ResponsesIn(k)[i].key
            /\ MethodsOut[k].responses.array[i].method = Get(MethodsIn[k], "method")

=============================================================================
